---- MODULE Spec2Model ----
(***************************************************************************)
(* Model of script.py: the three-pass streaming join that fills missing    *)
(* `abstract` fields of profile records from a corpus of abstract records. *)
(*                                                                         *)
(*   pass 1 (collector)  script.py 46-80                                   *)
(*   pass 2 (resolver)   script.py 84-140                                  *)
(*   pass 3 (writer)     script.py 144-190                                 *)
(*                                                                         *)
(* Strings are sequences of one-character strings, so that str.strip() and *)
(* str.lower() are computed and not assumed.  A JSON field is Absent, Null *)
(* or Str(s).                                                              *)
(***************************************************************************)
EXTENDS Naturals, Sequences, FiniteSets, TLC

VARIABLES
    raw_file,         \* the profiles file (never written by the program)
    abstracts_file,   \* the abstracts file (never written by the program)
    pc,               \* position of main()
    i,                \* index of the next item / line of the profiles pass under way
    abs_pos,          \* items / lines of the abstracts file consumed so far
    raw_format,       \* result of detect_json_format(raw_file)
    big_format,       \* result of detect_json_format(abstracts_file)
    needed_ids,
    needed_dois,
    remaining_ids,
    remaining_dois,
    id_to_abstract,
    doi_to_abstract,
    first,            \* the writer's `first` flag (array mode)
    out_f             \* the output file: whether it exists, and its text

vars == << raw_file, abstracts_file, pc, i, abs_pos, raw_format, big_format,
           needed_ids, needed_dois, remaining_ids, remaining_dois,
           id_to_abstract, doi_to_abstract, first, out_f >>

-----------------------------------------------------------------------------
(* Bounds of the model *)

MaxProfiles == 2
MaxRecs == 2

-----------------------------------------------------------------------------
(* JSON values and Python's view of them *)

Absent == [k |-> "absent"]
Null == [k |-> "null"]
Str(s) == [k |-> "str", v |-> s]

\* dict.get(key): None for a key that is absent, the value otherwise
PyGet(field) == IF field = Absent THEN Null ELSE field

\* `x is None`
IsNone(v) == v = Null

\* `if x:` for x None or a string
Truthy(v) == v.k = "str" /\ v.v # << >>

\* a line of a line-encoded file that json.loads rejects
Malformed == [k |-> "malformed"]

IsSpace(c) == c = " "

RECURSIVE LStrip(_)
LStrip(s) ==
    IF s # << >> /\ IsSpace(Head(s)) THEN LStrip(Tail(s)) ELSE s

RECURSIVE RStrip(_)
RStrip(s) ==
    IF s # << >> /\ IsSpace(s[Len(s)]) THEN RStrip(SubSeq(s, 1, Len(s) - 1)) ELSE s

\* str.strip()
Strip(s) == RStrip(LStrip(s))

LowerChar(c) == IF c = "X" THEN "x" ELSE IF c = "A" THEN "a" ELSE c

\* str.lower()
Lower(s) == [n \in 1..Len(s) |-> LowerChar(s[n])]

\* doi.strip().lower()
DoiKey(s) == Lower(Strip(s))

-----------------------------------------------------------------------------
(* Format sniffer *)

EOF == ""
FmtNone == "None"

\* f.read(1) until the first non-whitespace character
RECURSIVE FirstNonSpace(_)
FirstNonSpace(text) ==
    IF text = << >> THEN EOF
    ELSE IF IsSpace(Head(text)) THEN FirstNonSpace(Tail(text))
    ELSE Head(text)

detect_json_format(file) ==
    LET char == FirstNonSpace(file.lead)
    IN  IF char = EOF THEN FmtNone
        ELSE IF char = "[" THEN "array"
        ELSE IF char = "{" THEN "ndjson"
        ELSE FmtNone

-----------------------------------------------------------------------------
(* Per-record logic of the three passes *)

\* mutant: the collector takes the ID of every profile, complete or not
CollectIds_AnyProfile(profile, ids) ==
    IF Truthy(PyGet(profile.id)) THEN ids \cup {profile.id.v} ELSE ids

\* collector, one profile: the needed-key sets after it
CollectIds(profile, ids) ==
    IF IsNone(PyGet(profile.abstract)) /\ Truthy(PyGet(profile.id))
    THEN ids \cup {profile.id.v}
    ELSE ids

\* mutant: the collector strips the DOI and does not lowercase it
CollectDois_StripOnly(profile, dois) ==
    IF IsNone(PyGet(profile.abstract)) /\ Truthy(PyGet(profile.doi))
    THEN dois \cup {Strip(profile.doi.v)}
    ELSE dois

CollectDois(profile, dois) ==
    IF IsNone(PyGet(profile.abstract)) /\ Truthy(PyGet(profile.doi))
    THEN dois \cup {DoiKey(profile.doi.v)}
    ELSE dois

\* dict with d[key] = value set
Put(d, key, value) ==
    [x \in DOMAIN d \cup {key} |-> IF x = key THEN value ELSE d[x]]

\* mutant: the ID branch forgets remaining_ids.discard(rec_id)
ResolveId_NoDiscard(rec, map, remaining) ==
    LET rec_id == PyGet(rec.id)
        abstract_text == PyGet(rec.text)
    IN  IF Truthy(rec_id) /\ rec_id.v \in remaining /\ Truthy(abstract_text)
        THEN << Put(map, rec_id.v, abstract_text.v), remaining >>
        ELSE << map, remaining >>

\* mutant: the ID branch does not ask whether the ID is still remaining
ResolveId_AnyRecord(rec, map, remaining) ==
    LET rec_id == PyGet(rec.id)
        abstract_text == PyGet(rec.text)
    IN  IF Truthy(rec_id)
        THEN << IF Truthy(abstract_text) THEN Put(map, rec_id.v, abstract_text.v) ELSE map,
                remaining \ {rec_id.v} >>
        ELSE << map, remaining >>

\* resolver, ID branch of one record: << id_to_abstract, remaining_ids >> after it
ResolveId(rec, map, remaining) ==
    LET rec_id == PyGet(rec.id)
        abstract_text == PyGet(rec.text)
    IN  IF Truthy(rec_id) /\ rec_id.v \in remaining
        THEN << IF Truthy(abstract_text) THEN Put(map, rec_id.v, abstract_text.v) ELSE map,
                remaining \ {rec_id.v} >>
        ELSE << map, remaining >>

\* mutant: the DOI branch consumes the key only when the record has a text
ResolveDoi_KeepsSearching(rec, map, remaining) ==
    LET doi == PyGet(rec.doi)
        abstract_text == PyGet(rec.text)
    IN  IF Truthy(doi) /\ DoiKey(doi.v) \in remaining /\ Truthy(abstract_text)
        THEN << Put(map, DoiKey(doi.v), abstract_text.v), remaining \ {DoiKey(doi.v)} >>
        ELSE << map, remaining >>

\* resolver, DOI branch of one record: << doi_to_abstract, remaining_dois >> after it
ResolveDoi(rec, map, remaining) ==
    LET doi == PyGet(rec.doi)
        abstract_text == PyGet(rec.text)
    IN  IF Truthy(doi) /\ DoiKey(doi.v) \in remaining
        THEN << IF Truthy(abstract_text) THEN Put(map, DoiKey(doi.v), abstract_text.v) ELSE map,
                remaining \ {DoiKey(doi.v)} >>
        ELSE << map, remaining >>

\* mutant: `or` for `and`
BreakEarly_Either(rem_ids, rem_dois) == rem_ids = {} \/ rem_dois = {}

\* `if not remaining_ids and not remaining_dois: break`
BreakEarly(rem_ids, rem_dois) == rem_ids = {} /\ rem_dois = {}

\* mutant: the writer looks the DOI up first
Merge_DoiFirst(profile, idmap, doimap) ==
    IF IsNone(PyGet(profile.abstract))
    THEN LET pub_id == PyGet(profile.id)
             doi == PyGet(profile.doi)
         IN  IF Truthy(doi) /\ DoiKey(doi.v) \in DOMAIN doimap
             THEN [profile EXCEPT !.abstract = Str(doimap[DoiKey(doi.v)])]
             ELSE IF Truthy(pub_id) /\ pub_id.v \in DOMAIN idmap
                  THEN [profile EXCEPT !.abstract = Str(idmap[pub_id.v])]
                  ELSE profile
    ELSE profile

\* writer, one profile: the profile as it is dumped
Merge(profile, idmap, doimap) ==
    IF IsNone(PyGet(profile.abstract))
    THEN LET pub_id == PyGet(profile.id)
             doi == PyGet(profile.doi)
         IN  IF Truthy(pub_id) /\ pub_id.v \in DOMAIN idmap
             THEN [profile EXCEPT !.abstract = Str(idmap[pub_id.v])]
             ELSE IF Truthy(doi) /\ DoiKey(doi.v) \in DOMAIN doimap
                  THEN [profile EXCEPT !.abstract = Str(doimap[DoiKey(doi.v)])]
                  ELSE profile
    ELSE profile

\* what the writer puts in the output text
Punct(c) == [t |-> "punct", c |-> c]
Obj(o) == [t |-> "obj", o |-> o]

\* mutant: no separator is written between the elements
DumpArrayItem_NoSeparator(text, isFirst, profile) == Append(text, Obj(profile))

\* array mode: ",\n" before every element but the first, then json.dump
DumpArrayItem(text, isFirst, profile) ==
    IF isFirst THEN Append(text, Obj(profile))
    ELSE Append(Append(text, Punct(",")), Obj(profile))

\* line mode: json.dumps(profile) + "\n"
DumpLine(text, profile) == Append(Append(text, Obj(profile)), Punct("\n"))

-----------------------------------------------------------------------------
(* Input files *)

SeqsUpTo(S, n) == UNION {[1..m -> S] : m \in 0..n}

A == <<"A">>

Profile(abstract, id, doi) == [abstract |-> abstract, id |-> id, doi |-> doi]

\* The profiles a profiles file is drawn from: missing `abstract` (null or
\* absent) with both keys, with the ID alone, and with the DOI alone beside an
\* empty ID; `abstract` present, with keys that other profiles need, and
\* present but empty.  The raw DOIs <<"X", " ">> and <<" ", "x">> differ and
\* have the key <<"x">>.
Profiles ==
    { Profile(Null, Str(A), Str(<<"X", " ">>)),
      Profile(Absent, Str(A), Absent),
      Profile(Null, Str(<< >>), Str(<<" ", "x">>)),
      Profile(Str(<<"o">>), Str(A), Str(<<"X", " ">>)),
      Profile(Str(<< >>), Absent, Str(<<"x">>)) }

Rec(id, doi, text) == [id |-> id, doi |-> doi, text |-> text]

\* The records an abstracts file is drawn from: each key with a text, with no
\* text field and with an empty text, and both keys in one record.  The records
\* of one key differ in text and in the raw form of the DOI.
Recs ==
    { Rec(Str(A), Absent, Str(<<"p">>)),
      Rec(Str(A), Str(<< >>), Absent),
      Rec(Str(<< >>), Str(<<"x">>), Str(<<"q">>)),
      Rec(Absent, Str(<<"X">>), Str(<< >>)),
      Rec(Str(A), Str(<<"x", " ">>), Str(<<"r">>)) }

\* a file whose top level is one array: every element parses
ArrayFiles(S, n) ==
    {[lead |-> <<"[">>, items |-> s] : s \in SeqsUpTo(S, n)}

\* a file of lines, the first starting with "{": a line parses or does not
LineFiles(S, n) ==
    {[lead |-> <<" ", "{">>, items |-> s] :
        s \in SeqsUpTo(S \cup {Malformed}, n) \ {<< >>}}

\* the empty file, and a file that starts with something else
OtherFiles ==
    {[lead |-> l, items |-> << >>] : l \in {<< >>, <<" ", "x">>}}

Files(S, n) == ArrayFiles(S, n) \cup LineFiles(S, n) \cup OtherFiles

-----------------------------------------------------------------------------
(* main() *)

NoFile == [exists |-> FALSE, text |-> << >>]

Init ==
    /\ raw_file \in Files(Profiles, MaxProfiles)
    /\ abstracts_file \in Files(Recs, MaxRecs)
    /\ pc = "start"
    /\ i = 1
    /\ abs_pos = 0
    /\ raw_format = FmtNone
    /\ big_format = FmtNone
    /\ needed_ids = {}
    /\ needed_dois = {}
    /\ remaining_ids = {}
    /\ remaining_dois = {}
    /\ id_to_abstract = << >>
    /\ doi_to_abstract = << >>
    /\ first = TRUE
    /\ out_f = NoFile

\* lines 47-50, 78-80
SniffRaw ==
    /\ pc = "start"
    /\ raw_format' = detect_json_format(raw_file)
    /\ pc' = IF raw_format' = FmtNone THEN "aborted" ELSE "collect"
    /\ UNCHANGED << raw_file, abstracts_file, abs_pos, i, big_format, needed_ids, needed_dois,
                    remaining_ids, remaining_dois, id_to_abstract, doi_to_abstract,
                    first, out_f >>

\* lines 53-61
CollectArrayItem ==
    /\ pc = "collect"
    /\ raw_format = "array"
    /\ i <= Len(raw_file.items)
    /\ LET profile == raw_file.items[i]
       IN  /\ needed_ids' = CollectIds(profile, needed_ids)
           /\ needed_dois' = CollectDois(profile, needed_dois)
    /\ i' = i + 1
    /\ UNCHANGED << raw_file, abstracts_file, abs_pos, pc, raw_format, big_format,
                    remaining_ids, remaining_dois, id_to_abstract, doi_to_abstract,
                    first, out_f >>

\* lines 65-77
CollectNdjsonLine ==
    /\ pc = "collect"
    /\ raw_format = "ndjson"
    /\ i <= Len(raw_file.items)
    /\ LET line == raw_file.items[i]
       IN  IF line = Malformed
           THEN UNCHANGED << needed_ids, needed_dois >>
           ELSE /\ needed_ids' = CollectIds(line, needed_ids)
                /\ needed_dois' = CollectDois(line, needed_dois)
    /\ i' = i + 1
    /\ UNCHANGED << raw_file, abstracts_file, abs_pos, pc, raw_format, big_format,
                    remaining_ids, remaining_dois, id_to_abstract, doi_to_abstract,
                    first, out_f >>

\* mutant: an unrecognized abstracts file does not end the run
SniffAbstracts_NoAbort ==
    /\ pc = "collect"
    /\ i > Len(raw_file.items)
    /\ id_to_abstract' = << >>
    /\ doi_to_abstract' = << >>
    /\ remaining_ids' = needed_ids
    /\ remaining_dois' = needed_dois
    /\ big_format' = detect_json_format(abstracts_file)
    /\ pc' = "resolve"
    /\ UNCHANGED << raw_file, abstracts_file, abs_pos, i, raw_format, needed_ids, needed_dois,
                    first, out_f >>

\* lines 82-92, 138-140: the collection pass is over, the resolver is set up
SniffAbstracts ==
    /\ pc = "collect"
    /\ i > Len(raw_file.items)
    /\ id_to_abstract' = << >>
    /\ doi_to_abstract' = << >>
    /\ remaining_ids' = needed_ids
    /\ remaining_dois' = needed_dois
    /\ big_format' = detect_json_format(abstracts_file)
    /\ pc' = IF big_format' = FmtNone THEN "aborted" ELSE "resolve"
    /\ UNCHANGED << raw_file, abstracts_file, abs_pos, i, raw_format, needed_ids, needed_dois,
                    first, out_f >>

\* lines 96-113 (and 122-137): one parsed record of the abstracts stream
ResolveRec(rec) ==
    LET byId == ResolveId(rec, id_to_abstract, remaining_ids)
        byDoi == ResolveDoi(rec, doi_to_abstract, remaining_dois)
    IN  /\ id_to_abstract' = byId[1]
        /\ remaining_ids' = byId[2]
        /\ doi_to_abstract' = byDoi[1]
        /\ remaining_dois' = byDoi[2]
        /\ pc' = IF BreakEarly(byId[2], byDoi[2]) THEN "reopen" ELSE pc

\* lines 95-113
ResolveArrayItem ==
    /\ pc = "resolve"
    /\ big_format = "array"
    /\ abs_pos < Len(abstracts_file.items)
    /\ abs_pos' = abs_pos + 1
    /\ ResolveRec(abstracts_file.items[abs_pos + 1])
    /\ UNCHANGED << raw_file, abstracts_file, i, raw_format, big_format,
                    needed_ids, needed_dois, first, out_f >>

\* lines 117-137
ResolveNdjsonLine ==
    /\ pc = "resolve"
    /\ big_format = "ndjson"
    /\ abs_pos < Len(abstracts_file.items)
    /\ abs_pos' = abs_pos + 1
    /\ LET line == abstracts_file.items[abs_pos + 1]
       IN  IF line = Malformed
           THEN UNCHANGED << pc, id_to_abstract, doi_to_abstract,
                             remaining_ids, remaining_dois >>
           ELSE ResolveRec(line)
    /\ UNCHANGED << raw_file, abstracts_file, i, raw_format, big_format,
                    needed_ids, needed_dois, first, out_f >>

\* lines 95, 117: the abstracts stream is exhausted and the loop ends
ResolveExhausted ==
    /\ pc = "resolve"
    /\ abs_pos >= Len(abstracts_file.items)
    /\ pc' = "reopen"
    /\ UNCHANGED << raw_file, abstracts_file, abs_pos, i, raw_format, big_format,
                    needed_ids, needed_dois, remaining_ids, remaining_dois,
                    id_to_abstract, doi_to_abstract, first, out_f >>

\* lines 146-151: the format is detected again, the output is opened as an array
OpenArrayOutput ==
    /\ pc = "reopen"
    /\ raw_format' = detect_json_format(raw_file)
    /\ raw_format' = "array"
    /\ out_f' = [exists |-> TRUE, text |-> << Punct("[") >>]
    /\ first' = TRUE
    /\ pc' = "write"
    /\ i' = 1
    /\ UNCHANGED << raw_file, abstracts_file, abs_pos, big_format, needed_ids, needed_dois,
                    remaining_ids, remaining_dois, id_to_abstract, doi_to_abstract >>

\* lines 146, 172-173: any other result of the detection opens it for lines
OpenNdjsonOutput ==
    /\ pc = "reopen"
    /\ raw_format' = detect_json_format(raw_file)
    /\ raw_format' # "array"
    /\ out_f' = [exists |-> TRUE, text |-> << >>]
    /\ pc' = "write"
    /\ i' = 1
    /\ UNCHANGED << raw_file, abstracts_file, abs_pos, big_format, needed_ids, needed_dois,
                    remaining_ids, remaining_dois, id_to_abstract, doi_to_abstract,
                    first >>

\* lines 154-170
WriteArrayItem ==
    /\ pc = "write"
    /\ raw_format = "array"
    /\ i <= Len(raw_file.items)
    /\ LET profile == Merge(raw_file.items[i], id_to_abstract, doi_to_abstract)
       IN  out_f' = [out_f EXCEPT !.text = DumpArrayItem(@, first, profile)]
    /\ first' = FALSE
    /\ i' = i + 1
    /\ UNCHANGED << raw_file, abstracts_file, abs_pos, pc, raw_format, big_format,
                    needed_ids, needed_dois, remaining_ids, remaining_dois,
                    id_to_abstract, doi_to_abstract >>

\* line 171
CloseArrayOutput ==
    /\ pc = "write"
    /\ raw_format = "array"
    /\ i > Len(raw_file.items)
    /\ out_f' = [out_f EXCEPT !.text = Append(@, Punct("]"))]
    /\ pc' = "done"
    /\ UNCHANGED << raw_file, abstracts_file, abs_pos, i, raw_format, big_format,
                    needed_ids, needed_dois, remaining_ids, remaining_dois,
                    id_to_abstract, doi_to_abstract, first >>

\* mutant: a line that does not parse ends the writer's loop
WriteNdjsonLine_StopsAtMalformed ==
    /\ pc = "write"
    /\ raw_format # "array"
    /\ i <= Len(raw_file.items)
    /\ LET line == raw_file.items[i]
       IN  IF line = Malformed
           THEN pc' = "done" /\ UNCHANGED out_f
           ELSE /\ pc' = pc
                /\ out_f' = [out_f EXCEPT !.text =
                                DumpLine(@, Merge(line, id_to_abstract, doi_to_abstract))]
    /\ i' = i + 1
    /\ UNCHANGED << raw_file, abstracts_file, abs_pos, raw_format, big_format,
                    needed_ids, needed_dois, remaining_ids, remaining_dois,
                    id_to_abstract, doi_to_abstract, first >>

\* lines 174-190
WriteNdjsonLine ==
    /\ pc = "write"
    /\ raw_format # "array"
    /\ i <= Len(raw_file.items)
    /\ LET line == raw_file.items[i]
       IN  IF line = Malformed
           THEN UNCHANGED out_f
           ELSE out_f' = [out_f EXCEPT !.text =
                            DumpLine(@, Merge(line, id_to_abstract, doi_to_abstract))]
    /\ i' = i + 1
    /\ UNCHANGED << raw_file, abstracts_file, abs_pos, pc, raw_format, big_format,
                    needed_ids, needed_dois, remaining_ids, remaining_dois,
                    id_to_abstract, doi_to_abstract, first >>

\* lines 173-174, 192: the line loop ends and the files are closed
CloseNdjsonOutput ==
    /\ pc = "write"
    /\ raw_format # "array"
    /\ i > Len(raw_file.items)
    /\ pc' = "done"
    /\ UNCHANGED << raw_file, abstracts_file, abs_pos, i, raw_format, big_format,
                    needed_ids, needed_dois, remaining_ids, remaining_dois,
                    id_to_abstract, doi_to_abstract, first, out_f >>

Next ==
    \/ SniffRaw
    \/ CollectArrayItem
    \/ CollectNdjsonLine
    \/ SniffAbstracts
    \/ ResolveArrayItem
    \/ ResolveNdjsonLine
    \/ ResolveExhausted
    \/ OpenArrayOutput
    \/ OpenNdjsonOutput
    \/ WriteArrayItem
    \/ CloseArrayOutput
    \/ WriteNdjsonLine
    \/ CloseNdjsonOutput

Spec == Init /\ [][Next]_vars

-----------------------------------------------------------------------------
(* What the claims speak of *)

\* the records a stream yields: every element of an array, every line that parses
Parsed(file) == SelectSeq(file.items, LAMBDA e : e # Malformed)

InProfiles == Parsed(raw_file)
AbsRecs == Parsed(abstracts_file)

\* the records the resolver has been handed so far
AbsSeen == Parsed([abstracts_file EXCEPT !.items = SubSeq(@, 1, abs_pos)])

MissingAbstract(profile) == profile.abstract \in {Absent, Null}

\* a present, non-empty string field
NonEmpty(field) == field \notin {Absent, Null} /\ field.v # << >>

\* the record carries the ID / the DOI key
CarriesId(rec, id) == NonEmpty(rec.id) /\ rec.id.v = id
CarriesDoi(rec, key) == NonEmpty(rec.doi) /\ DoiKey(rec.doi.v) = key

Min(S) == CHOOSE n \in S : \A m \in S : n <= m

IdCarriers(recs, id) == {j \in 1..Len(recs) : CarriesId(recs[j], id)}
DoiCarriers(recs, key) == {j \in 1..Len(recs) : CarriesDoi(recs[j], key)}

\* the output text read back as JSON
ArrayInner(text) == SubSeq(text, 2, Len(text) - 1)

Alternates(inner, sep) ==
    \A n \in 1..Len(inner) :
        IF n % 2 = 1 THEN inner[n].t = "obj" ELSE inner[n] = Punct(sep)

ValidArrayText(text) ==
    /\ Len(text) >= 2
    /\ text[1] = Punct("[")
    /\ text[Len(text)] = Punct("]")
    /\ ArrayInner(text) = << >> \/ Len(ArrayInner(text)) % 2 = 1
    /\ Alternates(ArrayInner(text), ",")

ValidLinesText(text) ==
    /\ Len(text) % 2 = 0
    /\ Alternates(text, "\n")

ObjectsOf(inner) == [n \in 1..((Len(inner) + 1) \div 2) |-> inner[2 * n - 1].o]

ValidOutput ==
    IF raw_format = "array" THEN ValidArrayText(out_f.text) ELSE ValidLinesText(out_f.text)

OutRecords ==
    IF raw_format = "array" THEN ObjectsOf(ArrayInner(out_f.text)) ELSE ObjectsOf(out_f.text)

\* the run has written and closed the output
Done == pc = "done"

\* the output holds one record per input profile, so that record k answers profile k
Aligned == ValidOutput /\ Len(OutRecords) = Len(InProfiles)

-----------------------------------------------------------------------------
(* C1 *)

\* C1 as stated: a profile missing `abstract` whose ID is non-empty gets the text
\* of any record of the corpus that has this ID and a non-empty text.
C1_AnyRecordWithText ==
    Done =>
        /\ Aligned
        /\ \A k \in 1..Len(InProfiles) : \A j \in 1..Len(AbsRecs) :
              ( /\ MissingAbstract(InProfiles[k])
                /\ NonEmpty(InProfiles[k].id)
                /\ CarriesId(AbsRecs[j], InProfiles[k].id.v)
                /\ NonEmpty(AbsRecs[j].text) )
              => OutRecords[k].abstract = AbsRecs[j].text

\* C1 amended: a profile missing `abstract` whose ID is non-empty gets the text of
\* the FIRST record in stream order that has this ID, when that record's text is
\* non-empty; this holds for every corpus and ordering, duplicates included.
C1_FirstRecordWithText ==
    Done =>
        /\ Aligned
        /\ \A k \in 1..Len(InProfiles) :
              LET profile == InProfiles[k]
                  carriers == IdCarriers(AbsRecs, profile.id.v)
              IN  ( /\ MissingAbstract(profile)
                    /\ NonEmpty(profile.id)
                    /\ carriers # {}
                    /\ NonEmpty(AbsRecs[Min(carriers)].text) )
                  => OutRecords[k].abstract = AbsRecs[Min(carriers)].text

\* a filled profile whose ID is carried by two records with different texts
C1_Witness ==
    /\ Done
    /\ \E k \in 1..Len(InProfiles) :
         /\ MissingAbstract(InProfiles[k])
         /\ NonEmpty(InProfiles[k].id)
         /\ Cardinality(IdCarriers(AbsRecs, InProfiles[k].id.v)) = 2
         /\ NonEmpty(AbsRecs[1].text) /\ NonEmpty(AbsRecs[2].text)
         /\ AbsRecs[1].text # AbsRecs[2].text
         /\ OutRecords[k].abstract = AbsRecs[1].text

-----------------------------------------------------------------------------
(* C2 *)

IdHit(profile) == NonEmpty(profile.id) /\ profile.id.v \in DOMAIN id_to_abstract
DoiHit(profile) == NonEmpty(profile.doi) /\ DoiKey(profile.doi.v) \in DOMAIN doi_to_abstract

\* C2: a profile missing `abstract` is written with id_to_abstract[ID] when its ID
\* is a key of id_to_abstract, whatever doi_to_abstract holds; otherwise with
\* doi_to_abstract[normalized DOI] when that is a key; otherwise as it was.
C2_IdBeforeDoi ==
    Done =>
        /\ Aligned
        /\ \A k \in 1..Len(InProfiles) :
              LET profile == InProfiles[k]
              IN  MissingAbstract(profile) =>
                    OutRecords[k].abstract =
                        IF IdHit(profile) THEN Str(id_to_abstract[profile.id.v])
                        ELSE IF DoiHit(profile)
                             THEN Str(doi_to_abstract[DoiKey(profile.doi.v)])
                             ELSE profile.abstract

\* both lookups would succeed, with different texts, and the ID's text is written
C2_Witness ==
    /\ Done
    /\ \E k \in 1..Len(InProfiles) :
         /\ MissingAbstract(InProfiles[k])
         /\ IdHit(InProfiles[k])
         /\ DoiHit(InProfiles[k])
         /\ id_to_abstract[InProfiles[k].id.v] # doi_to_abstract[DoiKey(InProfiles[k].doi.v)]
         /\ OutRecords[k].abstract = Str(id_to_abstract[InProfiles[k].id.v])

-----------------------------------------------------------------------------
(* C3 *)

Collected == pc \notin {"start", "collect"}

\* C3: a profile whose `abstract` is not null is written as it was read, and the
\* needed-key sets hold only keys of profiles that miss `abstract`.
C3_CompleteProfilesUntouched ==
    LET ins == InProfiles
    IN  /\ Done =>
              /\ Aligned
              /\ \A k \in 1..Len(ins) :
                    ~MissingAbstract(ins[k]) => OutRecords[k] = ins[k]
        /\ \A id \in needed_ids :
              \E k \in 1..Len(ins) :
                  /\ MissingAbstract(ins[k])
                  /\ NonEmpty(ins[k].id)
                  /\ ins[k].id.v = id
        /\ \A key \in needed_dois :
              \E k \in 1..Len(ins) :
                  /\ MissingAbstract(ins[k])
                  /\ NonEmpty(ins[k].doi)
                  /\ DoiKey(ins[k].doi.v) = key

\* a complete profile whose ID and DOI are both keys of the mappings is unchanged
C3_Witness ==
    /\ Done
    /\ \E k \in 1..Len(InProfiles) :
         /\ ~MissingAbstract(InProfiles[k])
         /\ IdHit(InProfiles[k])
         /\ DoiHit(InProfiles[k])
         /\ OutRecords[k] = InProfiles[k]

-----------------------------------------------------------------------------
(* C4 *)

\* the resolver pass is under way or has just ended; it has just ended
InResolver == pc \in {"resolve", "reopen"}
ResolverOver == pc = "reopen"

\* the state of one key after the records `recs`, by first match wins
FirstMatch(recs, carriers, key, map, remaining) ==
    IF carriers = {}
    THEN key \in remaining /\ key \notin DOMAIN map
    ELSE LET text == recs[Min(carriers)].text
         IN  /\ key \notin remaining
             /\ IF NonEmpty(text)
                THEN key \in DOMAIN map /\ Str(map[key]) = text
                ELSE key \notin DOMAIN map

\* C4: during the resolver pass every needed key is in the state its first carrier
\* among the records read so far left it in (consumed, and mapped to that record's
\* text only if it has one); once the pass is over this is the first carrier of the
\* whole stream, so no later record is used.
C4_FirstMatchWins ==
    LET seen == AbsSeen
        recs == AbsRecs
    IN  /\ InResolver =>
              /\ \A id \in needed_ids :
                    FirstMatch(seen, IdCarriers(seen, id), id,
                               id_to_abstract, remaining_ids)
              /\ \A key \in needed_dois :
                    FirstMatch(seen, DoiCarriers(seen, key), key,
                               doi_to_abstract, remaining_dois)
        /\ ResolverOver =>
              /\ \A id \in needed_ids :
                    FirstMatch(recs, IdCarriers(recs, id), id,
                               id_to_abstract, remaining_ids)
              /\ \A key \in needed_dois :
                    FirstMatch(recs, DoiCarriers(recs, key), key,
                               doi_to_abstract, remaining_dois)

\* a needed DOI key whose first carrier has no text and whose second has one:
\* the key is consumed and never mapped
C4_Witness ==
    /\ ResolverOver
    /\ \E key \in needed_dois :
         /\ DoiCarriers(AbsRecs, key) = {1, 2}
         /\ ~NonEmpty(AbsRecs[1].text)
         /\ NonEmpty(AbsRecs[2].text)
         /\ key \notin DOMAIN doi_to_abstract
         /\ key \notin remaining_dois

-----------------------------------------------------------------------------
(* C5 *)

\* C5: the output file exists only after both input files were recognized, and a
\* run with an unrecognized input never gets past the pass that sniffs it.
C5_NoOutputOnUnknownFormat ==
    /\ out_f.exists => raw_format # FmtNone /\ big_format # FmtNone
    /\ pc = "aborted" => ~out_f.exists
    /\ detect_json_format(raw_file) = FmtNone => pc \in {"start", "aborted"}
    /\ detect_json_format(abstracts_file) = FmtNone =>
          pc \in {"start", "collect", "aborted"}

\* the run aborted on the abstracts file after a collection pass that found keys
C5_Witness ==
    /\ pc = "aborted"
    /\ raw_format # FmtNone
    /\ detect_json_format(abstracts_file) = FmtNone
    /\ needed_ids # {}
    /\ ~out_f.exists

-----------------------------------------------------------------------------
(* C6 *)

\* the profiles the writer has been handed so far
Written == Parsed([raw_file EXCEPT !.items = SubSeq(@, 1, i - 1)])

\* the records in the text of an output that is still open
RecordsSoFar ==
    IF raw_format = "array" THEN ObjectsOf(Tail(out_f.text)) ELSE ObjectsOf(out_f.text)

SameButAbstract(o, profile) == [o EXCEPT !.abstract = profile.abstract] = profile

\* C6: the writer emits one record per parsed profile, in input order, equal to
\* the profile in every field but `abstract`; a line that does not parse adds no
\* record and does not end the pass; the closed output is well formed.
C6_OneRecordPerProfile ==
    /\ pc = "write" =>
          /\ Len(RecordsSoFar) = Len(Written)
          /\ \A k \in 1..Len(Written) : SameButAbstract(RecordsSoFar[k], Written[k])
    /\ Done =>
          /\ ValidOutput
          /\ Len(OutRecords) = Len(InProfiles)
          /\ \A k \in 1..Len(InProfiles) : SameButAbstract(OutRecords[k], InProfiles[k])

\* line mode: a malformed line, then a profile that is written with a new abstract
C6_Witness ==
    /\ Done
    /\ raw_format = "ndjson"
    /\ Len(raw_file.items) = 2
    /\ raw_file.items[1] = Malformed
    /\ Len(InProfiles) = 1
    /\ Len(OutRecords) = 1
    /\ OutRecords[1].abstract # InProfiles[1].abstract

-----------------------------------------------------------------------------
(* C7 *)

\* C7: when no profile misses `abstract`, the records written are the records of
\* the profiles file, in the same order, whatever the abstracts file holds.
C7_RoundTrip ==
    ( /\ Done
      /\ \A k \in 1..Len(InProfiles) : ~MissingAbstract(InProfiles[k]) )
    => ValidOutput /\ OutRecords = InProfiles

\* two different complete profiles, and an abstracts file that carries their keys
C7_Witness ==
    /\ Done
    /\ Len(InProfiles) = 2
    /\ InProfiles[1] # InProfiles[2]
    /\ \A k \in 1..2 : ~MissingAbstract(InProfiles[k])
    /\ \E j \in 1..Len(AbsRecs) :
         CarriesId(AbsRecs[j], A) /\ CarriesDoi(AbsRecs[j], <<"x">>)
    /\ OutRecords = InProfiles

-----------------------------------------------------------------------------
(* C8 *)

\* C8: the needed DOI keys are the normalized DOIs of the profiles that miss
\* `abstract`, and such a profile, when its ID does not hit, is filled from the
\* first record whose DOI has the same normalization, if that record has a text.
C8_DoiNormalizedOnBothSides ==
    /\ Collected =>
          needed_dois =
              { DoiKey(InProfiles[k].doi.v) :
                  k \in { n \in 1..Len(InProfiles) :
                            /\ MissingAbstract(InProfiles[n])
                            /\ NonEmpty(InProfiles[n].doi) } }
    /\ Done =>
          /\ Aligned
          /\ \A k \in 1..Len(InProfiles) :
                LET profile == InProfiles[k]
                    carriers == DoiCarriers(AbsRecs, DoiKey(profile.doi.v))
                IN  ( /\ MissingAbstract(profile)
                      /\ ~IdHit(profile)
                      /\ NonEmpty(profile.doi)
                      /\ carriers # {}
                      /\ NonEmpty(AbsRecs[Min(carriers)].text) )
                    => OutRecords[k].abstract = AbsRecs[Min(carriers)].text

\* a profile filled by DOI from a record whose raw DOI differs from the profile's,
\* neither of them being in normal form already
C8_Witness ==
    /\ Done
    /\ \E k \in 1..Len(InProfiles) : \E j \in 1..Len(AbsRecs) :
         /\ MissingAbstract(InProfiles[k])
         /\ ~IdHit(InProfiles[k])
         /\ NonEmpty(InProfiles[k].doi)
         /\ CarriesDoi(AbsRecs[j], DoiKey(InProfiles[k].doi.v))
         /\ AbsRecs[j].doi.v # InProfiles[k].doi.v
         /\ AbsRecs[j].doi.v # DoiKey(AbsRecs[j].doi.v)
         /\ InProfiles[k].doi.v # DoiKey(InProfiles[k].doi.v)
         /\ OutRecords[k].abstract = AbsRecs[j].text

-----------------------------------------------------------------------------
(* C9 *)

\* a resolver that hands every record of the stream to the per-record logic
RECURSIVE ResolveWholeStream(_, _, _)
ResolveWholeStream(recs, byId, byDoi) ==
    IF recs = << >> THEN << byId, byDoi >>
    ELSE ResolveWholeStream(Tail(recs),
                            ResolveId(Head(recs), byId[1], byId[2]),
                            ResolveDoi(Head(recs), byDoi[1], byDoi[2]))

WholeStream ==
    ResolveWholeStream(AbsRecs, << << >>, needed_ids >>, << << >>, needed_dois >>)

\* C9: the mappings of the resolver that stops early are those of the resolver that
\* reads the whole stream; when the stream ends first, the remaining keys are the
\* needed keys that no record carried, and none of them is mapped.
C9_EarlyStopChangesNothing ==
    LET whole == WholeStream
        recs == AbsRecs
    IN  /\ ResolverOver =>
              /\ id_to_abstract = whole[1][1]
              /\ doi_to_abstract = whole[2][1]
        /\ (ResolverOver /\ ~BreakEarly(remaining_ids, remaining_dois)) =>
              /\ abs_pos = Len(abstracts_file.items)
              /\ remaining_ids = {id \in needed_ids : IdCarriers(recs, id) = {}}
              /\ remaining_dois = {key \in needed_dois : DoiCarriers(recs, key) = {}}
              /\ remaining_ids \cap DOMAIN id_to_abstract = {}
              /\ remaining_dois \cap DOMAIN doi_to_abstract = {}

\* the pass stopped with a record unread that carries a mapped ID with another text
C9_Witness ==
    /\ pc = "reopen"
    /\ abs_pos < Len(abstracts_file.items)
    /\ LET rec == abstracts_file.items[abs_pos + 1]
       IN  /\ rec # Malformed
           /\ NonEmpty(rec.id) /\ NonEmpty(rec.text)
           /\ rec.id.v \in DOMAIN id_to_abstract
           /\ id_to_abstract[rec.id.v] # rec.text.v

-----------------------------------------------------------------------------
(* C10 *)

\* from the start of the resolver pass to the end of the run
Resolving == pc \in {"resolve", "reopen", "write", "done"}

NonEmptyValues(map) == \A key \in DOMAIN map : map[key] # << >>

Kept(map) == \A key \in DOMAIN map : key \in DOMAIN map' /\ map'[key] = map[key]

C10_State ==
    Resolving =>
        /\ remaining_ids \subseteq needed_ids
        /\ remaining_dois \subseteq needed_dois
        /\ DOMAIN id_to_abstract \subseteq needed_ids \ remaining_ids
        /\ DOMAIN doi_to_abstract \subseteq needed_dois \ remaining_dois
        /\ NonEmptyValues(id_to_abstract)
        /\ NonEmptyValues(doi_to_abstract)

C10_Step ==
    Resolving =>
        /\ needed_ids' = needed_ids
        /\ needed_dois' = needed_dois
        /\ remaining_ids' \subseteq remaining_ids
        /\ remaining_dois' \subseteq remaining_dois
        /\ Kept(id_to_abstract)
        /\ Kept(doi_to_abstract)

\* C10: from the start of the resolver pass on, the needed sets never change, the
\* remaining sets are subsets of them and only shrink, the keys of each mapping
\* are needed keys no longer remaining, and every stored value is a non-empty
\* text that is never overwritten.
C10_ResolverInvariant == [](C10_State) /\ [][C10_Step]_vars

\* half way: one key mapped, another still remaining, a record still to read
C10_Witness ==
    /\ pc = "resolve"
    /\ abs_pos >= 1
    /\ abs_pos < Len(abstracts_file.items)
    /\ DOMAIN id_to_abstract # {}
    /\ remaining_dois # {}

====
